---- MODULE Spec2Model ----
(***************************************************************************)
(* Model of media-scout (src/src/main.rs): the App state, the metadata     *)
(* extraction helpers, the filter view and the run_app event loop.         *)
(*                                                                         *)
(* A text is modelled by the string of the bytes of its UTF-8 encoding, as *)
(* Rust holds it: a character of a string here is one byte, 0x00 to 0xFF,  *)
(* so an ASCII character is itself and a character from U+0080 on takes    *)
(* two to four (U+00E9 is 0xC3 0xA9, U+2003 is 0xE2 0x80 0x83).  Indices   *)
(* and lengths are those of Rust, counted in bytes.  Len, SubSeq and \o    *)
(* act on strings as on sequences.  Option<T> is modelled as a sequence    *)
(* of length 0 (None) or 1 (Some(x)).  Instants and durations are counted  *)
(* in hundredths of a second, the resolution at which add_file prints the  *)
(* time an analysis took; `now` is a monotonic clock.                      *)
(*                                                                         *)
(* Fields of App that no handler ever reads (filter_options,               *)
(* last_scan_time) are not part of the state.  TableState is two           *)
(* variables, the selected index and the offset the table widget writes    *)
(* when it is drawn.  terminal.draw and event::read may return an error,   *)
(* which ends run_app in any mode.                                         *)
(***************************************************************************)
EXTENDS Integers, Sequences, FiniteSets, TLC

(***************************************************************************)
(* Bounds of the model.  The clock runs for MaxTime seconds and is read    *)
(* every ClockStep hundredths of a second.                                 *)
(***************************************************************************)
MaxFiles == 2
MaxInput == 1
MaxScroll == 2
MaxTime == 5
ClockStep == 150
MaxErrno == 2
MaxFilters == 2

(***************************************************************************)
(* Option<T>                                                               *)
(***************************************************************************)
None == << >>
Some(x) == << x >>
IsSome(o) == Len(o) = 1
Unwrap(o) == o[1]

(***************************************************************************)
(* str helpers (std::str)                                                  *)
(***************************************************************************)
CharAt(s, i) == SubSeq(s, i, i)

\* str::contains: t occurs in s as a contiguous substring ("" always does).
Contains(s, t) ==
    \E i \in 1..(Len(s) - Len(t) + 1) : SubSeq(s, i, i + Len(t) - 1) = t

\* str::find for a one-character pattern: 0-based index of the first
\* occurrence, as Option.
Find(s, c) ==
    LET hits == { i \in 1..Len(s) : CharAt(s, i) = c }
    IN  IF hits = {} THEN None
        ELSE Some((CHOOSE i \in hits : \A j \in hits : i <= j) - 1)

\* 0-based index of the last occurrence of c in s, as Option.
RFind(s, c) ==
    LET hits == { i \in 1..Len(s) : CharAt(s, i) = c }
    IN  IF hits = {} THEN None
        ELSE Some((CHOOSE i \in hits : \A j \in hits : i >= j) - 1)

\* The byte range s[lo..hi] of Rust (0-based, hi exclusive).
Slice(s, lo, hi) == SubSeq(s, lo + 1, hi)

\* The continuation bytes of UTF-8, 0x80 to 0xBF: a character from U+0080 on
\* is a first byte from 0xC2 on followed by one to three of these.
Utf8Cont == " ¡¢£¤¥¦§¨©ª«¬­®¯°±²³´µ¶·¸¹º»¼½¾¿"

\* The number of bytes the last character of a text takes.
LastCharLen(s) ==
    LET firsts == { k \in 1..Len(s) : ~Contains(Utf8Cont, CharAt(s, Len(s) + 1 - k)) }
    IN  IF firsts = {} THEN Len(s)
        ELSE CHOOSE k \in firsts : \A j \in firsts : k <= j

\* char::is_whitespace, the test of str::trim, on the encoding of a
\* character: U+0009 to U+000D and the space (one byte), U+0085 and U+00A0
\* (two bytes), U+1680, U+2000 to U+200A, U+2028, U+2029, U+202F, U+205F and
\* U+3000 (three bytes).
VerticalTab == ""
NextLine == "Â"
NoBreakSpace == "Â "

WideSpaces ==
    { "á", "â", "â", "â",
      "â", "â", "â", "â",
      "â", "â", "â", "â",
      "â¨", "â©", "â¯", "â",
      "ã" }

IsWhite(c) ==
    \/ c \in {"\t", "\n", VerticalTab, "\f", "\r", " ", NextLine, NoBreakSpace}
    \/ c \in WideSpaces

\* The number of bytes the first character of s takes when it is white,
\* otherwise 0.  No encoding is the start or the end of another one.
WhiteAtStart(s) ==
    LET white == { k \in 1..3 : k <= Len(s) /\ IsWhite(SubSeq(s, 1, k)) }
    IN  IF white = {} THEN 0 ELSE CHOOSE k \in white : TRUE

\* The same for the last character of s.
WhiteAtEnd(s) ==
    LET white == { k \in 1..3 : k <= Len(s) /\ IsWhite(SubSeq(s, Len(s) + 1 - k, Len(s))) }
    IN  IF white = {} THEN 0 ELSE CHOOSE k \in white : TRUE

RECURSIVE TrimStart(_)
TrimStart(s) ==
    IF WhiteAtStart(s) > 0
    THEN TrimStart(SubSeq(s, WhiteAtStart(s) + 1, Len(s)))
    ELSE s

RECURSIVE TrimEnd(_)
TrimEnd(s) ==
    IF WhiteAtEnd(s) > 0
    THEN TrimEnd(SubSeq(s, 1, Len(s) - WhiteAtEnd(s)))
    ELSE s

\* str::trim
Trim(s) == TrimEnd(TrimStart(s))

\* str::replace(c, ""): every occurrence of the character c removed.
RECURSIVE RemoveChar(_, _)
RemoveChar(s, c) ==
    IF Len(s) = 0 THEN ""
    ELSE IF CharAt(s, 1) = c THEN RemoveChar(SubSeq(s, 2, Len(s)), c)
    ELSE CharAt(s, 1) \o RemoveChar(SubSeq(s, 2, Len(s)), c)

\* str::lines: the text split at "\n", a "\r" right before the "\n"
\* dropped, and no empty last line for a text ending in "\n".
RECURSIVE Lines(_)
Lines(s) ==
    IF Len(s) = 0 THEN << >>
    ELSE LET nl == Find(s, "\n")
         IN  IF ~IsSome(nl) THEN << s >>
             ELSE LET raw  == Slice(s, 0, Unwrap(nl))
                      line == IF Len(raw) > 0 /\ CharAt(raw, Len(raw)) = "\r"
                              THEN SubSeq(raw, 1, Len(raw) - 1)
                              ELSE raw
                  IN  << line >> \o Lines(SubSeq(s, Unwrap(nl) + 2, Len(s)))

(***************************************************************************)
(* Decimal text <-> numbers                                                *)
(***************************************************************************)
Digits == "0123456789"

IsDigit(c) == Len(c) = 1 /\ Contains(Digits, c)

DigitVal(c) == Unwrap(Find(Digits, c))

AllDigits(s) == \A i \in 1..Len(s) : IsDigit(CharAt(s, i))

RECURSIVE NatOf(_)
NatOf(s) ==
    IF Len(s) = 0 THEN 0
    ELSE 10 * NatOf(SubSeq(s, 1, Len(s) - 1)) + DigitVal(CharAt(s, Len(s)))

RECURSIVE NatToStr(_)
NatToStr(n) ==
    IF n < 10 THEN CharAt(Digits, n + 1)
    ELSE NatToStr(n \div 10) \o CharAt(Digits, (n % 10) + 1)

\* The powers of two of a 32-bit integer: 2^0 to 2^30.
PowersOfTwo ==
    << 1, 2, 4, 8, 16, 32, 64, 128, 256, 512, 1024, 2048, 4096, 8192, 16384,
       32768, 65536, 131072, 262144, 524288, 1048576, 2097152, 4194304,
       8388608, 16777216, 33554432, 67108864, 134217728, 268435456,
       536870912, 1073741824 >>

Pow2(k) == PowersOfTwo[k + 1]

\* 2^j mod 5, for j >= 0.
Pow2Mod5(j) == CASE j % 4 = 0 -> 1 [] j % 4 = 1 -> 2 [] j % 4 = 2 -> 4 [] OTHER -> 3

\* The binary exponent k of n/20: 2^k <= n/20 < 2^(k+1), for n >= 1.
Log2Of20th(n) ==
    IF n >= 20
    THEN CHOOSE k \in 0..25 : 20 * Pow2(k) <= n /\ n < 40 * Pow2(k)
    ELSE 0 - (CHOOSE j \in 1..5 : 20 <= n * Pow2(j) /\ n * Pow2(j) < 40)

\* A text without its leading "0"s.
StripZeros(s) ==
    LET others == { i \in 1..Len(s) : CharAt(s, i) # "0" }
    IN  IF others = {} THEN ""
        ELSE SubSeq(s, CHOOSE i \in others : \A j \in others : i <= j, Len(s))

UpperCase == "ABCDEFGHIJKLMNOPQRSTUVWXYZ"
LowerCase == "abcdefghijklmnopqrstuvwxyz"

\* str::to_ascii_lowercase
RECURSIVE ToAsciiLower(_)
ToAsciiLower(s) ==
    IF Len(s) = 0 THEN ""
    ELSE IF Len(s) = 1
    THEN LET u == Find(UpperCase, s)
         IN  IF IsSome(u) THEN CharAt(LowerCase, Unwrap(u) + 1) ELSE s
    ELSE ToAsciiLower(SubSeq(s, 1, Len(s) \div 2))
             \o ToAsciiLower(SubSeq(s, Len(s) \div 2 + 1, Len(s)))

\* str::parse::<f64>: an optional sign, then "inf", "infinity" or "nan" in
\* any case, or digits with an optional point (a digit on one side of it at
\* least) and an optional exponent: "e" or "E", an optional sign, digits.
\* The number is kept exactly, as its digits and the power of ten they are
\* multiplied by; FormatMbps rounds it to the f64.
IsNegative(s) == Len(s) > 0 /\ CharAt(s, 1) = "-"

Unsigned(s) ==
    IF Len(s) > 0 /\ CharAt(s, 1) \in {"+", "-"} THEN SubSeq(s, 2, Len(s)) ELSE s

\* The value read from the digits of an exponent, leading 0s dropped: a
\* digit is taken in while the value is below 65536 (0x10000) and skipped
\* from then on, so at most six digits count.
ExponentValue(digits) ==
    IF Len(digits) <= 5 THEN NatOf(digits)
    ELSE IF NatOf(SubSeq(digits, 1, 5)) < 65536 THEN NatOf(SubSeq(digits, 1, 6))
    ELSE NatOf(SubSeq(digits, 1, 5))

\* The exponent written after the "e"; None when it has no digit or another
\* character.
ParseExponent(etext) ==
    IF Len(Unsigned(etext)) = 0 \/ ~AllDigits(Unsigned(etext)) THEN None
    ELSE IF IsNegative(etext) THEN Some(0 - ExponentValue(StripZeros(Unsigned(etext))))
    ELSE Some(ExponentValue(StripZeros(Unsigned(etext))))

\* The digits written before the "e" and how many of them follow the point;
\* None when there is no digit or another character.
ParseMantissa(mant) ==
    LET dot   == Find(mant, ".")
        whole == IF IsSome(dot) THEN Slice(mant, 0, Unwrap(dot)) ELSE mant
        frac  == IF IsSome(dot) THEN SubSeq(mant, Unwrap(dot) + 2, Len(mant)) ELSE ""
    IN  IF Len(whole) + Len(frac) > 0 /\ AllDigits(whole) /\ AllDigits(frac)
        THEN Some([digits |-> whole \o frac, scale |-> Len(frac)])
        ELSE None

ParseDecimal(neg, mant, exponent) ==
    IF IsSome(mant) /\ IsSome(exponent)
    THEN Some([kind |-> "num", neg |-> neg, digits |-> Unwrap(mant).digits,
               exp |-> Unwrap(exponent) - Unwrap(mant).scale])
    ELSE None

ParseNumber(neg, body, epos) ==
    IF IsSome(epos)
    THEN ParseDecimal(neg, ParseMantissa(Slice(body, 0, Unwrap(epos))),
                      ParseExponent(SubSeq(body, Unwrap(epos) + 2, Len(body))))
    ELSE ParseDecimal(neg, ParseMantissa(body), Some(0))

ParseUnsigned(neg, body, lower) ==
    IF lower \in {"inf", "infinity"}
    THEN Some([kind |-> "inf", neg |-> neg, digits |-> "", exp |-> 0])
    ELSE IF lower = "nan"
    THEN Some([kind |-> "nan", neg |-> neg, digits |-> "", exp |-> 0])
    ELSE ParseNumber(neg, body, Find(lower, "e"))

ParseF64(s) == ParseUnsigned(IsNegative(s), Unsigned(s), ToAsciiLower(Unsigned(s)))

RECURSIVE Pow10(_)
Pow10(k) ==
    IF k = 0 THEN 1
    ELSE IF k % 2 = 1 THEN 10 * Pow10(k - 1)
    ELSE Pow10(k \div 2) * Pow10(k \div 2)

\* Natural numbers of any size, as their decimal digits (most significant
\* first, no leading 0, the empty sequence for 0): the arithmetic of an f64
\* needs 54 bits and more.
RECURSIVE NatDigits(_)
NatDigits(n) == IF n = 0 THEN << >> ELSE Append(NatDigits(n \div 10), n % 10)

RECURSIVE DigitsOf(_)
DigitsOf(s) ==
    IF Len(s) = 0 THEN << >>
    ELSE IF Len(s) = 1 THEN << DigitVal(s) >>
    ELSE DigitsOf(SubSeq(s, 1, Len(s) \div 2)) \o DigitsOf(SubSeq(s, Len(s) \div 2 + 1, Len(s)))

BigOf(s) == DigitsOf(StripZeros(s))

RECURSIVE BigToStr(_)
BigToStr(a) ==
    IF a = << >> THEN ""
    ELSE IF Len(a) = 1 THEN CharAt(Digits, a[1] + 1)
    ELSE BigToStr(SubSeq(a, 1, Len(a) \div 2))
             \o BigToStr(SubSeq(a, Len(a) \div 2 + 1, Len(a)))

BigStrip(a) ==
    LET others == { i \in 1..Len(a) : a[i] # 0 }
    IN  IF others = {} THEN << >>
        ELSE SubSeq(a, CHOOSE i \in others : \A j \in others : i <= j, Len(a))

BigIsOdd(a) == a # << >> /\ a[Len(a)] % 2 = 1

\* a < b
BigLess(a, b) ==
    \/ Len(a) < Len(b)
    \/ /\ Len(a) = Len(b)
       /\ \E i \in 1..Len(a) :
            /\ a[i] < b[i]
            /\ \A j \in 1..(i - 1) : a[j] = b[j]

\* The last Len(a) digits of a * k + carry and the carry out of them, for k
\* and carry up to 2^27; the sequence is halved so that the depth of the
\* recursion is the logarithm of its length.
RECURSIVE BigMulCarry(_, _, _)
BigMulCarry(a, k, carry) ==
    IF a = << >> THEN [d |-> << >>, c |-> carry]
    ELSE IF Len(a) = 1
    THEN [d |-> << (a[1] * k + carry) % 10 >>, c |-> (a[1] * k + carry) \div 10]
    ELSE LET mid    == Len(a) \div 2
             right  == BigMulCarry(SubSeq(a, mid + 1, Len(a)), k, carry)
             halves == << right, BigMulCarry(SubSeq(a, 1, mid), k, right.c) >>
         IN  [d |-> halves[2].d \o halves[1].d, c |-> halves[2].c]

\* a * k + carry
BigMulAdd(a, k, carry) ==
    LET low == BigMulCarry(a, k, carry) IN BigStrip(NatDigits(low.c) \o low.d)

\* Long division by k up to 2^27 of the digits a that follow a remainder r:
\* the digits of the quotient (leading 0s kept) and the remainder.
RECURSIVE BigLongDiv(_, _, _)
BigLongDiv(a, k, r) ==
    IF a = << >> THEN [q |-> << >>, r |-> r]
    ELSE IF Len(a) = 1
    THEN [q |-> << (r * 10 + a[1]) \div k >>, r |-> (r * 10 + a[1]) % k]
    ELSE LET mid   == Len(a) \div 2
             left  == BigLongDiv(SubSeq(a, 1, mid), k, r)
             right == BigLongDiv(SubSeq(a, mid + 1, Len(a)), k, left.r)
         IN  [q |-> left.q \o right.q, r |-> right.r]

BigDivSmall(a, k) ==
    LET d == BigLongDiv(a, k, 0) IN [q |-> BigStrip(d.q), r |-> d.r]

\* a * 2^n, at most 27 bits at a time: 9 * 2^27 and a carry fit in 32 bits.
RECURSIVE BigShl(_, _)
BigShl(a, n) ==
    IF n <= 27 THEN BigMulAdd(a, Pow2(n), 0)
    ELSE LET low == BigShl(a, n \div 2)
         IN  IF low = << >> THEN low ELSE BigShl(low, n - n \div 2)

\* floor(a / 2^n), and whether a remainder was dropped, at most 27 bits at
\* a time.
RECURSIVE BigShr(_, _)
BigShr(a, n) ==
    IF n <= 27
    THEN LET d == BigDivSmall(a, Pow2(n)) IN [q |-> d.q, sticky |-> d.r # 0]
    ELSE LET first  == BigShr(a, n \div 2)
             second == BigShr(first.q, n - n \div 2)
         IN  IF first.q = << >> THEN first
             ELSE [q |-> second.q, sticky |-> first.sticky \/ second.sticky]

\* floor(a / 10^c), and whether a remainder was dropped.
BigDropDigits(a, c) ==
    [q      |-> SubSeq(a, 1, Len(a) - c),
     sticky |-> \E i \in 1..Len(a) : i > Len(a) - c /\ a[i] # 0]

Two53 == << 9, 0, 0, 7, 1, 9, 9, 2, 5, 4, 7, 4, 0, 9, 9, 2 >>

\* The quotient d.q of a division whose remainder is d.r, to the nearest
\* whole: up past the half, down before it, and at the half (nothing dropped
\* below it, which sticky tells) to the even one.
RoundNearest(d, half, sticky) ==
    IF d.r > half \/ (d.r = half /\ (sticky \/ BigIsOdd(d.q)))
    THEN BigMulAdd(d.q, 1, 1)
    ELSE d.q

\* At least the binary digits of a number of L decimal digits, less one
\* (of 10^(L-1), for L < 1 of a fraction that starts with 1 - L zeros).
BitsBelow(L) ==
    IF L >= 1 THEN ((L - 1) * 33219) \div 10000 ELSE ((L - 1) * 33220) \div 10000

WithSticky(z, sticky) == [q |-> z.q, sticky |-> z.sticky \/ sticky]

\* floor(P * 2^shift / 10^c), and whether a remainder was dropped.
ScaleToBits(P, c, shift) ==
    IF shift >= 0 THEN BigDropDigits(BigShl(P, shift), c)
    ELSE WithSticky(BigShr(BigDropDigits(P, c).q, 0 - shift), BigDropDigits(P, c).sticky)

\* The bits q has beyond 54: 2^53 * 2^h <= q < 2^54 * 2^h.
ExtraBits(q) ==
    CHOOSE h \in 0..6 :
        /\ BigLess(q, BigMulAdd(Two53, Pow2(h + 1), 0))
        /\ ~BigLess(q, BigMulAdd(Two53, Pow2(h), 0))

\* z.q, of 54 + h bits, rounded to its first 53.
RoundTo53(z, h, shift) ==
    [e |-> h - shift + 1,
     m |-> RoundNearest(BigDivSmall(z.q, Pow2(h + 1)), Pow2(h), z.sticky)]

Normalize(z, shift) == RoundTo53(z, ExtraBits(z.q), shift)

\* The f64 nearest to P / 10^c, ties to the even mantissa, as a mantissa m of
\* 53 bits (2^52 <= m <= 2^53) and an exponent e: the f64 is m * 2^e.  P is
\* positive; the exponent is not bounded here.
NearestF64(P, c) ==
    Normalize(ScaleToBits(P, c, 53 - BitsBelow(Len(P) - c)), 53 - BitsBelow(Len(P) - c))

\* Whether the f64 nearest to (2t+1)/20, the quotient of a bit rate half way
\* between two tenths of a megabit, prints rounded up: an exact quarter
\* rounds half to even, any other quotient by the side its f64 falls on.
TieRoundsUp(t) ==
    LET n == 2 * t + 1
    IN  IF n % 5 = 0 THEN t % 2 = 1
        ELSE ((n % 5) * Pow2Mod5(50 - Log2Of20th(n))) % 5 \in {3, 4}

\* The digits and the power of ten of a number, without leading 0s and
\* without the 0s that end a fraction: 5000000.0 is 5000000.
Shorten(digits, exp) ==
    LET ends  == { k \in 1..Len(digits) : CharAt(digits, Len(digits) + 1 - k) # "0" }
        zeros == IF ends = {} THEN Len(digits)
                 ELSE (CHOOSE k \in ends : \A j \in ends : k <= j) - 1
        room  == IF exp < 0 THEN 0 - exp ELSE 0
        cut   == IF zeros < room THEN zeros ELSE room
    IN  [digits |-> StripZeros(SubSeq(digits, 1, Len(digits) - cut)), exp |-> exp + cut]

RECURSIVE Zeros(_)
Zeros(n) ==
    IF n = 0 THEN << >>
    ELSE IF n = 1 THEN << 0 >>
    ELSE Zeros(n \div 2) \o Zeros(n - n \div 2)

\* Tenths written with one fractional digit.
TenthsToStr(tenths) ==
    (IF Len(tenths) > 1 THEN BigToStr(SubSeq(tenths, 1, Len(tenths) - 1)) ELSE "0")
        \o "." \o (IF tenths = << >> THEN "0" ELSE BigToStr(<< tenths[Len(tenths)] >>))

\* The tenths of a whole number w of bits per second below 10^9, which is
\* an f64 as it stands: w / 100000 to the nearest whole, a quotient half way
\* by TieRoundsUp.
TenthsOfWhole(w) ==
    LET t   == w \div 100000
        rem == w % 100000
    IN  IF rem > 50000 \/ (rem = 50000 /\ TieRoundsUp(t)) THEN t + 1 ELSE t

\* r.q / 2 to the nearest whole, halves to the even one.
RoundShifted(r) == RoundNearest(BigDivSmall(r.q, 2), 1, r.sticky)

\* Ten times the f64 y.m * 2^(y.e + xe), to the nearest whole.
QuotientTenths(y, xe) ==
    IF y.e + xe >= 0 THEN BigShl(Append(y.m, 0), y.e + xe)
    ELSE RoundShifted(BigShr(Append(y.m, 0), 0 - (y.e + xe) - 1))

\* The tenths of the f64 x divided by 1_000_000.0, the quotient the nearest
\* f64: None when x is beyond the largest f64, which is infinite.
MbpsTenths(x) ==
    IF x.e >= 972 \/ (x.e = 971 /\ x.m = Two53) THEN None
    ELSE Some(QuotientTenths(NearestF64(x.m, 6), x.e))

\* The tenths of digits * 10^exp bits per second in f64 arithmetic: the f64
\* nearest to the number, that divided by 1_000_000.0, and ten times the
\* quotient rounded to a whole.
TenthsOfF64(digits, exp) ==
    MbpsTenths(NearestF64(BigOf(digits) \o Zeros(IF exp > 0 THEN exp ELSE 0),
                          IF exp < 0 THEN 0 - exp ELSE 0))

FormatTenths(sign, tenths) ==
    IF IsSome(tenths) THEN sign \o TenthsToStr(Unwrap(tenths)) ELSE sign \o "inf"

\* A number below 10^4 is less than a twentieth of a million and prints as
\* 0.0; one of more than 309 digits before the point is infinite; a whole
\* number below 10^9 is an f64 as it stands.
FormatNumber(sign, n) ==
    IF n.digits = "" \/ Len(n.digits) + n.exp <= 4 THEN sign \o "0.0"
    ELSE IF Len(n.digits) + n.exp > 309 THEN sign \o "inf"
    ELSE IF n.exp >= 0 /\ Len(n.digits) + n.exp <= 9
    THEN sign \o TenthsToStr(NatDigits(TenthsOfWhole(NatOf(n.digits) * Pow10(n.exp))))
    ELSE FormatTenths(sign, TenthsOfF64(n.digits, n.exp))

\* format!("{:.1}", bitrate / 1_000_000.0)
FormatMbps(v) ==
    CASE v.kind = "inf" -> (IF v.neg THEN "-" ELSE "") \o "inf"
      [] v.kind = "nan" -> "NaN"
      [] OTHER -> FormatNumber(IF v.neg THEN "-" ELSE "", Shorten(v.digits, v.exp))

\* Duration::from_secs(n)
Secs(n) == n * 100

\* format!("{:.2}", elapsed.as_secs_f64())
FormatSecs(d) ==
    NatToStr(d \div 100) \o "." \o NatToStr((d % 100) \div 10) \o NatToStr(d % 10)

(***************************************************************************)
(* std::path::Path on Unix                                                 *)
(***************************************************************************)
\* The parts of a path between its separators.
RECURSIVE SplitPath(_)
SplitPath(path) ==
    LET sep == Find(path, "/")
    IN  IF ~IsSome(sep) THEN << path >>
        ELSE << Slice(path, 0, Unwrap(sep)) >>
                 \o SplitPath(SubSeq(path, Unwrap(sep) + 2, Len(path)))

\* Components::next_back on the parts: empty parts and "." are no
\* components; the last component is a name, or ".." (or nothing: the root,
\* the current directory, the empty path).
RECURSIVE LastComponent(_)
LastComponent(parts) ==
    IF parts = << >> THEN None
    ELSE IF parts[Len(parts)] \in {"", "."}
    THEN LastComponent(SubSeq(parts, 1, Len(parts) - 1))
    ELSE IF parts[Len(parts)] = ".." THEN None
    ELSE Some(parts[Len(parts)])

\* Path::file_name: the last component when it is a name.
file_name(path) == LastComponent(SplitPath(path))

\* std::path::rsplit_file_at_dot: <<before, after>>, each an Option.
rsplit_file_at_dot(file) ==
    LET dot == RFind(file, ".")
    IN  IF file = ".." THEN << Some(file), None >>
        ELSE IF ~IsSome(dot) THEN << None, Some(file) >>
        ELSE IF Unwrap(dot) = 0 THEN << Some(file), None >>
        ELSE << Some(Slice(file, 0, Unwrap(dot))),
                Some(SubSeq(file, Unwrap(dot) + 2, Len(file))) >>

\* Path::file_stem(..).unwrap_or_default()
file_stem(path) ==
    IF ~IsSome(file_name(path)) THEN ""
    ELSE LET ba == rsplit_file_at_dot(Unwrap(file_name(path)))
         IN  IF IsSome(ba[1]) THEN Unwrap(ba[1]) ELSE Unwrap(ba[2])

\* Path::extension(..).unwrap_or_default()
extension(path) ==
    IF ~IsSome(file_name(path)) THEN ""
    ELSE LET ba == rsplit_file_at_dot(Unwrap(file_name(path)))
         IN  IF IsSome(ba[1]) /\ IsSome(ba[2]) THEN Unwrap(ba[2]) ELSE ""

(***************************************************************************)
(* Extraction (App::extract_*, App::analyze_file)                          *)
(***************************************************************************)
\* extract_codec with the vp9 and av01 tests after the hap test.
extract_codec_HapFirst(output) ==
    IF Contains(output, "h264") THEN "H.264"
    ELSE IF Contains(output, "hevc") \/ Contains(output, "h265") THEN "H.265"
    ELSE IF Contains(output, "hap") THEN "Hap"
    ELSE IF Contains(output, "vp9") THEN "VP9"
    ELSE IF Contains(output, "av01") THEN "AV1"
    ELSE IF Contains(output, "mjpeg") THEN "MJPEG"
    ELSE "Unknown"

extract_codec(output) ==
    IF Contains(output, "h264") THEN "H.264"
    ELSE IF Contains(output, "hevc") \/ Contains(output, "h265") THEN "H.265"
    ELSE IF Contains(output, "vp9") THEN "VP9"
    ELSE IF Contains(output, "av01") THEN "AV1"
    ELSE IF Contains(output, "hap") THEN "Hap"
    ELSE IF Contains(output, "mjpeg") THEN "MJPEG"
    ELSE "Unknown"

\* ResolutionOfLine answering with the line itself when no pair is known.
ResolutionOfLine_Derived(line) ==
    IF Contains(line, "width") /\ Contains(line, "height")
    THEN IF Contains(line, "1920") /\ Contains(line, "1080") THEN Some("1920x1080")
         ELSE IF Contains(line, "1280") /\ Contains(line, "720") THEN Some("1280x720")
         ELSE IF Contains(line, "3840") /\ Contains(line, "2160") THEN Some("3840x2160")
         ELSE Some(Trim(line))
    ELSE None

\* The label one line of the report yields, or None.
ResolutionOfLine(line) ==
    IF Contains(line, "width") /\ Contains(line, "height")
    THEN IF Contains(line, "1920") /\ Contains(line, "1080") THEN Some("1920x1080")
         ELSE IF Contains(line, "1280") /\ Contains(line, "720") THEN Some("1280x720")
         ELSE IF Contains(line, "3840") /\ Contains(line, "2160") THEN Some("3840x2160")
         ELSE None
    ELSE None

RECURSIVE FirstResolution(_)
FirstResolution(lines) ==
    IF lines = << >> THEN "Unknown"
    ELSE IF IsSome(ResolutionOfLine(Head(lines))) THEN Unwrap(ResolutionOfLine(Head(lines)))
    ELSE FirstResolution(Tail(lines))

\* extract_resolution looking at the whole text as one line.
extract_resolution_WholeText(output) ==
    IF IsSome(ResolutionOfLine(output)) THEN Unwrap(ResolutionOfLine(output))
    ELSE "Unknown"

extract_resolution(output) == FirstResolution(Lines(output))

\* The positions at which t occurs in s.
Occurrences(s, t) ==
    { i \in 1..(Len(s) - Len(t) + 1) : SubSeq(s, i, i + Len(t) - 1) = t }

\* The position of the first occurrence of t in s, which contains t.
FirstAt(s, t) == CHOOSE i \in Occurrences(s, t) : \A j \in Occurrences(s, t) : i <= j

\* extract_frame_rate answering with the first rate found in the text.
extract_frame_rate_ByPosition(output) ==
    LET tokens == << "25/1", "\"25\"", "30/1", "\"30\"", "24/1", "\"24\"", "60/1", "\"60\"" >>
        rates  == << "25", "25", "30", "30", "24", "24", "60", "60" >>
        found  == { k \in 1..8 : Contains(output, tokens[k]) }
    IN  IF found = {} THEN "Unknown"
        ELSE rates[CHOOSE k \in found :
                     \A m \in found : FirstAt(output, tokens[k]) <= FirstAt(output, tokens[m])]

extract_frame_rate(output) ==
    IF Contains(output, "25/1") \/ Contains(output, "\"25\"") THEN "25"
    ELSE IF Contains(output, "30/1") \/ Contains(output, "\"30\"") THEN "30"
    ELSE IF Contains(output, "24/1") \/ Contains(output, "\"24\"") THEN "24"
    ELSE IF Contains(output, "60/1") \/ Contains(output, "\"60\"") THEN "60"
    ELSE "Unknown"

\* The `if` of the loop of extract_bitrate: the lines it looks into.
QualifyingBitrateLine(line) ==
    Contains(line, "bit_rate") /\ ~Contains(line, "max_bit_rate")

\* BitrateOfLine without the max_bit_rate exclusion.
BitrateOfLine_NoMaxCheck(line) ==
    IF Contains(line, "bit_rate")
    THEN LET start == Find(line, ":")
         IN  IF ~IsSome(start) THEN None
             ELSE LET s   == Unwrap(start)
                      end == Find(SubSeq(line, s + 1, Len(line)), ",")
                  IN  IF ~IsSome(end) THEN None
                      ELSE LET bitrate_str ==
                                   RemoveChar(Trim(Slice(line, s + 1, s + Unwrap(end))), "\"")
                               bitrate == ParseF64(bitrate_str)
                           IN  IF IsSome(bitrate) THEN Some(FormatMbps(Unwrap(bitrate)))
                               ELSE None
    ELSE None

\* The value one line of the report yields, or None: the body of the loop
\* of extract_bitrate.
BitrateOfLine(line) ==
    IF Contains(line, "bit_rate") /\ ~Contains(line, "max_bit_rate")
    THEN LET start == Find(line, ":")
         IN  IF ~IsSome(start) THEN None
             ELSE LET s   == Unwrap(start)
                      end == Find(SubSeq(line, s + 1, Len(line)), ",")
                  IN  IF ~IsSome(end) THEN None
                      ELSE LET bitrate_str ==
                                   RemoveChar(Trim(Slice(line, s + 1, s + Unwrap(end))), "\"")
                               bitrate == ParseF64(bitrate_str)
                           IN  IF IsSome(bitrate) THEN Some(FormatMbps(Unwrap(bitrate)))
                               ELSE None
    ELSE None

\* FirstBitrate deciding on the first qualifying line alone.
RECURSIVE FirstBitrate_FirstOnly(_)
FirstBitrate_FirstOnly(lines) ==
    IF lines = << >> THEN "Unknown"
    ELSE IF QualifyingBitrateLine(Head(lines))
         THEN IF IsSome(BitrateOfLine(Head(lines))) THEN Unwrap(BitrateOfLine(Head(lines)))
              ELSE "Unknown"
    ELSE FirstBitrate_FirstOnly(Tail(lines))

RECURSIVE FirstBitrate(_)
FirstBitrate(lines) ==
    IF lines = << >> THEN "Unknown"
    ELSE IF IsSome(BitrateOfLine(Head(lines))) THEN Unwrap(BitrateOfLine(Head(lines)))
    ELSE FirstBitrate(Tail(lines))

extract_bitrate(output) == FirstBitrate(Lines(output))

\* The MediaInfo analyze_file builds from a path and the probe's stdout.
analyze_file(path, raw_output) ==
    [ name       |-> file_stem(path),
      container  |-> extension(path),
      codec      |-> extract_codec(raw_output),
      resolution |-> extract_resolution(raw_output),
      frame_rate |-> extract_frame_rate(raw_output),
      bitrate    |-> extract_bitrate(raw_output),
      path       |-> path,
      raw_output |-> raw_output ]

(***************************************************************************)
(* The environment: the files that exist, what the probe may print, the    *)
(* keys the terminal delivers.                                             *)
(***************************************************************************)
\* A report with every field present, one where codec and resolution are not
\* recognisable, and the empty output of a probe that found nothing to report.
ReportFull ==
    "{\n \"codec_name\": \"h264\",\n \"width\": 1920, \"height\": 1080,\n \"r_frame_rate\": \"25/1\",\n bit_rate: \"10000000\",\n}\n"

ReportSparse ==
    "{\n \"codec_name\": \"prores\",\n \"r_frame_rate\": \"30/1\",\n bit_rate: \"1500000\",\n}\n"

ReportNone == ""

\* What the probe prints in a session.
Reports == { ReportFull, ReportNone }

\* Path::exists: the paths typed in a session that name a file.
FileSystem == { "q" }

\* strerror: the text of each error number of the operating system, 1 to 133.
strerror ==
    << "Operation not permitted", "No such file or directory",
       "No such process", "Interrupted system call", "Input/output error",
       "No such device or address", "Argument list too long",
       "Exec format error", "Bad file descriptor", "No child processes",
       "Resource temporarily unavailable", "Cannot allocate memory",
       "Permission denied", "Bad address", "Block device required",
       "Device or resource busy", "File exists", "Invalid cross-device link",
       "No such device", "Not a directory", "Is a directory",
       "Invalid argument", "Too many open files in system",
       "Too many open files", "Inappropriate ioctl for device",
       "Text file busy", "File too large", "No space left on device",
       "Illegal seek", "Read-only file system", "Too many links",
       "Broken pipe", "Numerical argument out of domain",
       "Numerical result out of range", "Resource deadlock avoided",
       "File name too long", "No locks available", "Function not implemented",
       "Directory not empty", "Too many levels of symbolic links",
       "Unknown error 41", "No message of desired type", "Identifier removed",
       "Channel number out of range", "Level 2 not synchronized",
       "Level 3 halted", "Level 3 reset", "Link number out of range",
       "Protocol driver not attached", "No CSI structure available",
       "Level 2 halted", "Invalid exchange", "Invalid request descriptor",
       "Exchange full", "No anode", "Invalid request code", "Invalid slot",
       "Unknown error 58", "Bad font file format", "Device not a stream",
       "No data available", "Timer expired", "Out of streams resources",
       "Machine is not on the network", "Package not installed",
       "Object is remote", "Link has been severed", "Advertise error",
       "Srmount error", "Communication error on send", "Protocol error",
       "Multihop attempted", "RFS specific error", "Bad message",
       "Value too large for defined data type", "Name not unique on network",
       "File descriptor in bad state", "Remote address changed",
       "Can not access a needed shared library",
       "Accessing a corrupted shared library",
       ".lib section in a.out corrupted",
       "Attempting to link in too many shared libraries",
       "Cannot exec a shared library directly",
       "Invalid or incomplete multibyte or wide character",
       "Interrupted system call should be restarted", "Streams pipe error",
       "Too many users", "Socket operation on non-socket",
       "Destination address required", "Message too long",
       "Protocol wrong type for socket", "Protocol not available",
       "Protocol not supported", "Socket type not supported",
       "Operation not supported", "Protocol family not supported",
       "Address family not supported by protocol", "Address already in use",
       "Cannot assign requested address", "Network is down",
       "Network is unreachable", "Network dropped connection on reset",
       "Software caused connection abort", "Connection reset by peer",
       "No buffer space available", "Transport endpoint is already connected",
       "Transport endpoint is not connected",
       "Cannot send after transport endpoint shutdown",
       "Too many references: cannot splice", "Connection timed out",
       "Connection refused", "Host is down", "No route to host",
       "Operation already in progress", "Operation now in progress",
       "Stale file handle", "Structure needs cleaning",
       "Not a XENIX named type file", "No XENIX semaphores available",
       "Is a named type file", "Remote I/O error", "Disk quota exceeded",
       "No medium found", "Wrong medium type", "Operation canceled",
       "Required key not available", "Key has expired",
       "Key has been revoked", "Key was rejected by service", "Owner died",
       "State not recoverable", "Operation not possible due to RF-kill",
       "Memory page has hardware error" >>

\* Display of an io::Error that carries an error number.
IoErrorText(code) == strerror[code] \o " (os error " \o NatToStr(code) \o ")"

\* The io::Error of a probe that cannot be launched or read: Command::output
\* hands on the error number of the operating system.  A session meets the
\* error numbers up to MaxErrno.
ProbeErrors == { IoErrorText(code) : code \in 1..MaxErrno }

\* Characters typed into the path field.
InputChars == { "q", "x" }

\* Characters pressed outside the path field.
CommandChars == { "q", "a", "r", "h", "c", "j", "k", "x" }

Char(c) == [code |-> "Char", c |-> c]
Key(code) == [code |-> code, c |-> ""]

SpecialKeys == { Key("Enter"), Key("Esc"), Key("Up"), Key("Down"), Key("Tab"),
                 Key("Backspace") }

\* The key presses delivered in a mode.
KeysIn(m) ==
    IF m = "AddFile" THEN { Char(c) : c \in InputChars } \cup SpecialKeys
    ELSE { Char(c) : c \in CommandChars } \cup SpecialKeys

Modes == { "Normal", "AddFile", "ShowRawOutput", "Help" }

(***************************************************************************)
(* State                                                                   *)
(***************************************************************************)
VARIABLES
    media_files,        \* App.media_files: the catalogue
    table_state,        \* App.table_state.selected(): Option<usize>
    table_offset,       \* App.table_state.offset(): the first row shown
    active_filters,     \* App.active_filters
    mode,               \* App.mode
    input,              \* App.input.value()
    selected_tab,       \* App.selected_tab
    raw_output_scroll,  \* App.raw_output_scroll
    notification,       \* App.notification: Option<(String, Instant)>
    now,                \* Instant::now(), in hundredths of a second
    pc,                 \* where run_app is: "draw", "read", or returned:
                        \* "done" (Ok) or "failed" (Err)
    frame,              \* what the last terminal.draw put on the screen
    add_file_calls,     \* add_file calls made for the last key press
    probe_result,       \* Command::output() in the last key press:
                        \* "none" (not run), "failed" (Err) or "ok"
    probe_stdout,       \* the texts the probe may print in this session
    superseded          \* the notification a key press replaced by another
                        \* text before its time was over, if any, until the
                        \* next frame is drawn

app == << media_files, table_state, table_offset, active_filters, mode, input,
          selected_tab, raw_output_scroll, notification >>

vars == << media_files, table_state, table_offset, active_filters, mode, input,
           selected_tab, raw_output_scroll, notification, now, pc, frame,
           add_file_calls, probe_result, probe_stdout, superseded >>

\* Duration::from_secs(3) of render_status_bar
NotificationSecs == 3

(***************************************************************************)
(* App                                                                     *)
(***************************************************************************)
\* FilterType -> the field of MediaInfo it reads.
FilterTypes == { "Container", "Codec", "Resolution", "FrameRate", "Bitrate" }

FilterField(file, filter_type) ==
    CASE filter_type = "Container"  -> file.container
      [] filter_type = "Codec"      -> file.codec
      [] filter_type = "Resolution" -> file.resolution
      [] filter_type = "FrameRate"  -> file.frame_rate
      [] filter_type = "Bitrate"    -> file.bitrate

\* MatchesAll with the fields compared for equality.
MatchesAll_Exact(file, filters) ==
    \A n \in 1..Len(filters) :
        FilterField(file, filters[n].filter_type) = filters[n].value

\* The closure of get_filtered_files: every active filter's value is
\* contained in the file's field.
MatchesAll(file, filters) ==
    \A n \in 1..Len(filters) :
        Contains(FilterField(file, filters[n].filter_type), filters[n].value)

RECURSIVE FilterFiles(_, _)
FilterFiles(files, filters) ==
    IF files = << >> THEN << >>
    ELSE IF MatchesAll(Head(files), filters)
         THEN << Head(files) >> \o FilterFiles(Tail(files), filters)
         ELSE FilterFiles(Tail(files), filters)

\* get_filtered_files without the early return and with `any` for `all`.
RECURSIVE FilterFiles_Any(_, _)
FilterFiles_Any(files, filters) ==
    IF files = << >> THEN << >>
    ELSE IF \E n \in 1..Len(filters) :
                Contains(FilterField(Head(files), filters[n].filter_type), filters[n].value)
         THEN << Head(files) >> \o FilterFiles_Any(Tail(files), filters)
         ELSE FilterFiles_Any(Tail(files), filters)

get_filtered_files_Any(files, filters) == FilterFiles_Any(files, filters)

get_filtered_files(files, filters) ==
    IF filters = << >> THEN files ELSE FilterFiles(files, filters)

show_notification(message) ==
    notification' = Some([message |-> message, timestamp |-> now])

\* clear_all without the cursor reset.
clear_all_NoSelect ==
    /\ media_files' = << >>
    /\ active_filters' = << >>
    /\ table_state' = table_state
    /\ show_notification("All files cleared")

clear_all ==
    /\ media_files' = << >>
    /\ active_filters' = << >>
    /\ table_state' = Some(0)
    /\ show_notification("All files cleared")

\* next_file stopping at the last record.
next_file_NoWrap ==
    IF media_files = << >> THEN table_state' = table_state
    ELSE LET i == IF IsSome(table_state)
                  THEN IF Unwrap(table_state) >= Len(media_files) - 1
                       THEN Len(media_files) - 1
                       ELSE Unwrap(table_state) + 1
                  ELSE 0
         IN  table_state' = Some(i)

next_file ==
    IF media_files = << >> THEN table_state' = table_state
    ELSE LET i == IF IsSome(table_state)
                  THEN IF Unwrap(table_state) >= Len(media_files) - 1
                       THEN 0
                       ELSE Unwrap(table_state) + 1
                  ELSE 0
         IN  table_state' = Some(i)

\* previous_file wrapping to the length, one past the last record.
previous_file_OffByOne ==
    IF media_files = << >> THEN table_state' = table_state
    ELSE LET i == IF IsSome(table_state)
                  THEN IF Unwrap(table_state) = 0
                       THEN Len(media_files)
                       ELSE Unwrap(table_state) - 1
                  ELSE 0
         IN  table_state' = Some(i)

previous_file ==
    IF media_files = << >> THEN table_state' = table_state
    ELSE LET i == IF IsSome(table_state)
                  THEN IF Unwrap(table_state) = 0
                       THEN Len(media_files) - 1
                       ELSE Unwrap(table_state) - 1
                  ELSE 0
         IN  table_state' = Some(i)

\* start_time.elapsed(): the time ffprobe took, up to one of the later
\* readings of the clock.
ProbeDurations ==
    { k * ClockStep : k \in 0..((Secs(MaxTime) - now) \div ClockStep) }

\* add_file refusing a path the catalogue already holds.
add_file_Dedup(path) ==
    \/ /\ path \notin FileSystem
       /\ show_notification("File does not exist")
       /\ probe_result' = "none"
       /\ UNCHANGED << media_files, now >>
    \/ /\ path \in FileSystem
       /\ Len(media_files) < MaxFiles
       /\ \E raw_output \in probe_stdout, d \in ProbeDurations :
            /\ probe_result' = "ok"
            /\ now' = now + d
            /\ media_files' =
                 IF \E i \in 1..Len(media_files) : media_files[i].path = path
                 THEN media_files
                 ELSE Append(media_files, analyze_file(path, raw_output))
            /\ notification' =
                 Some([message   |-> "File analyzed in " \o FormatSecs(d) \o "s",
                       timestamp |-> now + d])
    \/ /\ path \in FileSystem
       /\ \E e \in ProbeErrors : show_notification("Error analyzing file: " \o e)
       /\ probe_result' = "failed"
       /\ UNCHANGED << media_files, now >>

\* add_file without the existence check: the probe runs on a missing path
\* and prints nothing.
add_file_NoExistCheck(path) ==
    \/ /\ Len(media_files) < MaxFiles
       /\ \E raw_output \in (IF path \in FileSystem THEN probe_stdout ELSE { "" }), d \in ProbeDurations :
            /\ probe_result' = "ok"
            /\ now' = now + d
            /\ media_files' = Append(media_files, analyze_file(path, raw_output))
            /\ notification' =
                 Some([message   |-> "File analyzed in " \o FormatSecs(d) \o "s",
                       timestamp |-> now + d])
    \/ /\ \E e \in ProbeErrors : show_notification("Error analyzing file: " \o e)
       /\ probe_result' = "failed"
       /\ UNCHANGED << media_files, now >>

\* add_file: the existence check, then the probe.  The probe may fail to
\* launch; when it runs it takes the time d and prints one of probe_stdout.  The
\* catalogue is capped at MaxFiles records.
add_file(path) ==
    \/ /\ path \notin FileSystem
       /\ show_notification("File does not exist")
       /\ probe_result' = "none"
       /\ UNCHANGED << media_files, now >>
    \/ /\ path \in FileSystem
       /\ Len(media_files) < MaxFiles
       /\ \E raw_output \in probe_stdout, d \in ProbeDurations :
            /\ probe_result' = "ok"
            /\ now' = now + d
            /\ media_files' = Append(media_files, analyze_file(path, raw_output))
            /\ notification' =
                 Some([message   |-> "File analyzed in " \o FormatSecs(d) \o "s",
                       timestamp |-> now + d])
    \/ /\ path \in FileSystem
       /\ \E e \in ProbeErrors : show_notification("Error analyzing file: " \o e)
       /\ probe_result' = "failed"
       /\ UNCHANGED << media_files, now >>

(***************************************************************************)
(* run_app: one arm of `match app.mode` per mode                           *)
(***************************************************************************)
\* AppMode::Normal
NormalKey(key) ==
    /\ mode = "Normal"
    /\ add_file_calls' = 0
    /\ probe_result' = "none"
    /\ IF key = Char("q") THEN
            /\ pc' = "done"
            /\ UNCHANGED << app, now >>
       ELSE IF key = Char("a") THEN
            /\ mode' = "AddFile"
            /\ pc' = "draw"
            /\ UNCHANGED << media_files, table_state, active_filters, input,
                            selected_tab, raw_output_scroll, notification, now >>
       ELSE IF key = Char("r") THEN
            /\ mode' = "ShowRawOutput"
            /\ pc' = "draw"
            /\ UNCHANGED << media_files, table_state, active_filters, input,
                            selected_tab, raw_output_scroll, notification, now >>
       ELSE IF key = Char("h") THEN
            /\ mode' = "Help"
            /\ pc' = "draw"
            /\ UNCHANGED << media_files, table_state, active_filters, input,
                            selected_tab, raw_output_scroll, notification, now >>
       ELSE IF key = Char("c") THEN
            /\ clear_all
            /\ pc' = "draw"
            /\ UNCHANGED << mode, input, selected_tab, raw_output_scroll, now >>
       ELSE IF key \in { Key("Down"), Char("j") } THEN
            /\ next_file
            /\ pc' = "draw"
            /\ UNCHANGED << media_files, active_filters, mode, input, selected_tab,
                            raw_output_scroll, notification, now >>
       ELSE IF key \in { Key("Up"), Char("k") } THEN
            /\ previous_file
            /\ pc' = "draw"
            /\ UNCHANGED << media_files, active_filters, mode, input, selected_tab,
                            raw_output_scroll, notification, now >>
       ELSE IF key = Key("Tab") THEN
            /\ selected_tab' = (selected_tab + 1) % 3
            /\ pc' = "draw"
            /\ UNCHANGED << media_files, table_state, active_filters, mode, input,
                            raw_output_scroll, notification, now >>
       ELSE /\ pc' = "draw"
            /\ UNCHANGED << app, now >>

\* Input::handle_event of tui_input, for the keys delivered: a character is
\* inserted at the end, Backspace deletes the last one, any other key is
\* ignored.
handle_event(value, key) ==
    IF key.code = "Char" THEN value \o key.c
    ELSE IF key.code = "Backspace" /\ Len(value) > 0 THEN
        SubSeq(value, 1, Len(value) - LastCharLen(value))
    ELSE value

\* AddFileEnter with the return to Normal inside the `if`.
AddFileEnter_StayOnEmpty ==
    LET path == input
    IN  /\ IF path # ""
           THEN /\ add_file(path)
                /\ input' = ""
                /\ add_file_calls' = 1
                /\ mode' = "Normal"
           ELSE /\ UNCHANGED << media_files, notification, now, input, mode >>
                /\ add_file_calls' = 0
                /\ probe_result' = "none"
        /\ UNCHANGED << table_state, active_filters, selected_tab, raw_output_scroll >>

\* AppMode::AddFile, KeyCode::Enter
AddFileEnter ==
    LET path == input
    IN  /\ IF path # ""
           THEN /\ add_file(path)
                /\ input' = ""
                /\ add_file_calls' = 1
           ELSE /\ UNCHANGED << media_files, notification, now, input >>
                /\ add_file_calls' = 0
                /\ probe_result' = "none"
        /\ mode' = "Normal"
        /\ UNCHANGED << table_state, active_filters, selected_tab, raw_output_scroll >>

\* AddFileEsc without input.reset().
AddFileEsc_KeepInput ==
    /\ input' = input
    /\ mode' = "Normal"
    /\ add_file_calls' = 0
    /\ probe_result' = "none"
    /\ UNCHANGED << media_files, table_state, active_filters, selected_tab,
                    raw_output_scroll, notification, now >>

\* AppMode::AddFile, KeyCode::Esc
AddFileEsc ==
    /\ input' = ""
    /\ mode' = "Normal"
    /\ add_file_calls' = 0
    /\ probe_result' = "none"
    /\ UNCHANGED << media_files, table_state, active_filters, selected_tab,
                    raw_output_scroll, notification, now >>

\* AppMode::AddFile, any other key; a character is typed while the field
\* holds fewer than MaxInput characters.
AddFileOther(key) ==
    /\ key.code = "Char" => Len(input) < MaxInput
    /\ input' = handle_event(input, key)
    /\ add_file_calls' = 0
    /\ probe_result' = "none"
    /\ UNCHANGED << media_files, table_state, active_filters, mode, selected_tab,
                    raw_output_scroll, notification, now >>

\* AppMode::AddFile
AddFileKey(key) ==
    /\ mode = "AddFile"
    /\ pc' = "draw"
    /\ IF key = Key("Enter") THEN AddFileEnter
       ELSE IF key = Key("Esc") THEN AddFileEsc
       ELSE AddFileOther(key)

\* ShowRawOutputKey with the offset kept within the lines of the report.
ShowRawOutputKey_ClampDown(key) ==
    /\ mode = "ShowRawOutput"
    /\ pc' = "draw"
    /\ add_file_calls' = 0
    /\ probe_result' = "none"
    /\ IF key = Key("Esc") THEN
            /\ mode' = "Normal"
            /\ UNCHANGED raw_output_scroll
       ELSE IF key = Key("Up") THEN
            /\ raw_output_scroll' =
                 IF raw_output_scroll > 0 THEN raw_output_scroll - 1
                 ELSE raw_output_scroll
            /\ UNCHANGED mode
       ELSE IF key = Key("Down") THEN
            /\ raw_output_scroll < MaxScroll
            /\ raw_output_scroll' =
                 IF IsSome(table_state) /\ Unwrap(table_state) < Len(media_files)
                    /\ raw_output_scroll + 1
                         < Len(Lines(media_files[Unwrap(table_state) + 1].raw_output))
                 THEN raw_output_scroll + 1
                 ELSE raw_output_scroll
            /\ UNCHANGED mode
       ELSE UNCHANGED << mode, raw_output_scroll >>
    /\ UNCHANGED << media_files, table_state, active_filters, input, selected_tab,
                    notification, now >>

\* ShowRawOutputKey with 'h' opening the help.
ShowRawOutputKey_Help(key) ==
    /\ mode = "ShowRawOutput"
    /\ pc' = "draw"
    /\ add_file_calls' = 0
    /\ probe_result' = "none"
    /\ IF key \in { Key("Esc"), Char("h") } THEN
            /\ mode' = IF key = Key("Esc") THEN "Normal" ELSE "Help"
            /\ UNCHANGED raw_output_scroll
       ELSE IF key = Key("Up") THEN
            /\ raw_output_scroll' =
                 IF raw_output_scroll > 0 THEN raw_output_scroll - 1
                 ELSE raw_output_scroll
            /\ UNCHANGED mode
       ELSE IF key = Key("Down") THEN
            /\ raw_output_scroll < MaxScroll
            /\ raw_output_scroll' = raw_output_scroll + 1
            /\ UNCHANGED mode
       ELSE UNCHANGED << mode, raw_output_scroll >>
    /\ UNCHANGED << media_files, table_state, active_filters, input, selected_tab,
                    notification, now >>

\* AppMode::ShowRawOutput (the offset is capped at MaxScroll)
ShowRawOutputKey(key) ==
    /\ mode = "ShowRawOutput"
    /\ pc' = "draw"
    /\ add_file_calls' = 0
    /\ probe_result' = "none"
    /\ IF key = Key("Esc") THEN
            /\ mode' = "Normal"
            /\ UNCHANGED raw_output_scroll
       ELSE IF key = Key("Up") THEN
            /\ raw_output_scroll' =
                 IF raw_output_scroll > 0 THEN raw_output_scroll - 1
                 ELSE raw_output_scroll
            /\ UNCHANGED mode
       ELSE IF key = Key("Down") THEN
            /\ raw_output_scroll < MaxScroll
            /\ raw_output_scroll' = raw_output_scroll + 1
            /\ UNCHANGED mode
       ELSE UNCHANGED << mode, raw_output_scroll >>
    /\ UNCHANGED << media_files, table_state, active_filters, input, selected_tab,
                    notification, now >>

\* HelpKey with 'q' leaving the loop.
HelpKey_Quit(key) ==
    /\ mode = "Help"
    /\ pc' = IF key = Char("q") THEN "done" ELSE "draw"
    /\ add_file_calls' = 0
    /\ probe_result' = "none"
    /\ IF key = Key("Esc") THEN mode' = "Normal" ELSE UNCHANGED mode
    /\ UNCHANGED << media_files, table_state, active_filters, input, selected_tab,
                    raw_output_scroll, notification, now >>

\* AppMode::Help
HelpKey(key) ==
    /\ mode = "Help"
    /\ pc' = "draw"
    /\ add_file_calls' = 0
    /\ probe_result' = "none"
    /\ IF key = Key("Esc") THEN mode' = "Normal" ELSE UNCHANGED mode
    /\ UNCHANGED << media_files, table_state, active_filters, input, selected_tab,
                    raw_output_scroll, notification, now >>

BlankFrame == [status |-> "", tab |-> 0, rows |-> << >>, text |-> << >>]

\* main after run_app has returned: disable_raw_mode()?, then
\* execute!(.., LeaveAlternateScreen, DisableMouseCapture)?.  When both
\* succeed the alternate screen, and the frame on it, is left; when either
\* returns an error main returns at that `?` and the last frame drawn stays
\* on the screen.
restore_terminal == frame' \in { BlankFrame, frame }

\* The notification a step replaces by one of another text while it would
\* still be shown, or None.
Superseded ==
    IF /\ IsSome(notification)
       /\ IsSome(notification')
       /\ Unwrap(notification').message # Unwrap(notification).message
       /\ now' - Unwrap(notification).timestamp < Secs(NotificationSecs)
    THEN notification
    ELSE None

\* event::read() returned a key press.  No handler writes the offset of the
\* table: TableState::select(Some(i)) sets the selected index alone.  When
\* run_app returns, main restores the terminal.
KeyPress(key) ==
    /\ pc = "read"
    /\ UNCHANGED << probe_stdout, table_offset >>
    /\ \/ NormalKey(key)
       \/ AddFileKey(key)
       \/ ShowRawOutputKey(key)
       \/ HelpKey(key)
    /\ IF pc' = "done" THEN restore_terminal ELSE UNCHANGED frame
    /\ superseded' = Superseded

KeyEvent == \E key \in KeysIn(mode) : KeyPress(key)

\* event::read() returned something else (a key release, a mouse or resize
\* event): the loop goes round to the next draw.
OtherEvent ==
    /\ pc = "read"
    /\ pc' = "draw"
    /\ UNCHANGED << app, now, frame, add_file_calls, probe_result, probe_stdout,
                    superseded >>

(***************************************************************************)
(* ui: what terminal.draw shows                                            *)
(***************************************************************************)
DefaultStatus(m) ==
    CASE m = "Normal"        -> "Ready - Press 'h' for help"
      [] m = "AddFile"       -> "Enter file path..."
      [] m = "ShowRawOutput" -> "Viewing raw output - Press Esc to return"
      [] m = "Help"          -> "Help - Press Esc to return"

\* NotificationLive with <= for <.
NotificationLive_Inclusive(n) == now - n.timestamp <= Secs(NotificationSecs)

\* Instant::elapsed() < Duration::from_secs(3)
NotificationLive(n) == now - n.timestamp < Secs(NotificationSecs)

\* render_status_bar: the text shown; the expired notification is dropped.
render_status_bar_text ==
    IF IsSome(notification) /\ NotificationLive(Unwrap(notification))
    THEN Unwrap(notification).message
    ELSE DefaultStatus(mode)

\* render_status_bar dropping the notification at every pass.
render_status_bar_AlwaysClear == notification' = None

render_status_bar ==
    notification' =
        IF IsSome(notification) /\ ~NotificationLive(Unwrap(notification))
        THEN None
        ELSE notification

\* render_main_content: the rows of the table (none for the empty message).
\* Its last statement, which draws the table, is render_stateful_widget.
render_main_content == get_filtered_files(media_files, active_filters)

\* Iterator::skip(n) on the lines of a text.
Skip(lines, n) == SubSeq(lines, n + 1, Len(lines))

\* render_raw_output showing the first record whatever the cursor.
render_raw_output_First ==
    LET content == IF media_files # << >> THEN media_files[1].raw_output
                   ELSE "No file selected"
    IN  Skip(Lines(content), raw_output_scroll)

\* render_raw_output: the lines shown.
render_raw_output ==
    LET selected_file ==
            IF IsSome(table_state) /\ Unwrap(table_state) < Len(media_files)
            THEN Some(media_files[Unwrap(table_state) + 1])
            ELSE None
        content == IF IsSome(selected_file) THEN Unwrap(selected_file).raw_output
                   ELSE "No file selected"
    IN  Skip(Lines(content), raw_output_scroll)

\* Table::get_row_bounds of ratatui for len rows of height 1: the first row
\* shown, such that the selected row is among the max_height rows from it.
get_row_bounds(selected, offset, max_height, len) ==
    LET start == IF offset < len - 1 THEN offset ELSE len - 1
        sel   == IF IsSome(selected) /\ Unwrap(selected) < len - 1
                 THEN Unwrap(selected)
                 ELSE IF IsSome(selected) THEN len - 1 ELSE 0
    IN  IF sel < start THEN sel
        ELSE IF sel >= start + max_height THEN sel + 1 - max_height
        ELSE start

\* The lines the terminal leaves for the rows of the table: from one line to
\* a line for every row.  More lines than rows act like a line for every row.
RowsHeights == 1..MaxFiles

\* f.render_stateful_widget(table, area, &mut app.table_state): the widget
\* sets the offset of the table.  An empty view is shown by a Paragraph, the
\* other modes have no table.
render_stateful_widget ==
    IF mode = "Normal" /\ render_main_content # << >>
    THEN \E rows_height \in RowsHeights :
            table_offset' = get_row_bounds(table_state, table_offset, rows_height,
                                           Len(render_main_content))
    ELSE UNCHANGED table_offset

ui ==
    /\ pc = "draw"
    /\ pc' = "read"
    /\ frame' = [ status |-> render_status_bar_text,
                  tab    |-> selected_tab,
                  rows   |-> IF mode = "Normal" THEN render_main_content ELSE << >>,
                  text   |-> CASE mode = "AddFile"       -> << input >>
                               [] mode = "ShowRawOutput" -> render_raw_output
                               [] OTHER                  -> << >> ]
    /\ render_stateful_widget
    /\ render_status_bar
    /\ superseded' = None
    /\ UNCHANGED << media_files, table_state, active_filters, mode, input,
                    selected_tab, raw_output_scroll, now, add_file_calls,
                    probe_result, probe_stdout >>

\* terminal.draw(..)? returned an error, before the closure ran (the resize
\* of the buffers) or after it (the flush): run_app returns the error, and
\* main restores the terminal.  The frame is the last one drawn whole.
DrawFails ==
    /\ pc = "draw"
    /\ pc' = "failed"
    /\ \/ UNCHANGED << notification, table_offset >>
       \/ render_stateful_widget /\ render_status_bar
    /\ UNCHANGED << media_files, table_state, active_filters, mode, input,
                    selected_tab, raw_output_scroll, now, add_file_calls,
                    probe_result, probe_stdout, superseded >>
    /\ restore_terminal

\* event::read()? returned an error: run_app returns it, and main restores
\* the terminal.
ReadFails ==
    /\ pc = "read"
    /\ pc' = "failed"
    /\ restore_terminal
    /\ UNCHANGED << app, now, add_file_calls, probe_result, probe_stdout,
                    superseded >>

\* run_app is in its loop.
Running == pc \in { "draw", "read" }

\* Time passes while the loop draws or waits for an event.
Tick ==
    /\ Running
    /\ now + ClockStep <= Secs(MaxTime)
    /\ now' = now + ClockStep
    /\ UNCHANGED << app, pc, frame, add_file_calls, probe_result, probe_stdout,
                    superseded >>

(***************************************************************************)
(* The session: App::new, then run_app                                     *)
(***************************************************************************)
Init ==
    /\ media_files = << >>
    /\ table_state = Some(0)
    /\ table_offset = 0
    /\ active_filters = << >>
    /\ mode = "Normal"
    /\ input = ""
    /\ selected_tab = 0
    /\ raw_output_scroll = 0
    /\ notification = None
    /\ now = 0
    /\ pc = "draw"
    /\ frame = BlankFrame
    /\ add_file_calls = 0
    /\ probe_result = "none"
    /\ probe_stdout = Reports
    /\ superseded = None

Next == ui \/ DrawFails \/ KeyEvent \/ OtherEvent \/ ReadFails \/ Tick

Spec == Init /\ [][Next]_vars

(***************************************************************************)
(* The filter view on its own: any catalogue of analysed files, any        *)
(* sequence of filters, drawn and shown on the Files table.                *)
(***************************************************************************)
SamplePaths == { "a.mp4", "b.mkv" }

SampleFiles ==
    { analyze_file(path, raw_output) :
          path \in SamplePaths, raw_output \in { ReportFull, ReportSparse } }

Filter(filter_type, value) == [filter_type |-> filter_type, value |-> value]

SampleFilters == { Filter("Bitrate", "1"), Filter("Bitrate", "5"),
                   Filter("Codec", "264"), Filter("Container", "mkv") }

BoundedSeq(S, n) == UNION { [1..k -> S] : k \in 0..n }

InitFilter ==
    /\ media_files \in BoundedSeq(SampleFiles, MaxFiles)
    /\ active_filters \in BoundedSeq(SampleFilters, MaxFilters)
    /\ table_state = Some(0)
    /\ table_offset = 0
    /\ mode = "Normal"
    /\ input = ""
    /\ selected_tab = 0
    /\ raw_output_scroll = 0
    /\ notification = None
    /\ now = 0
    /\ pc = "draw"
    /\ frame = BlankFrame
    /\ add_file_calls = 0
    /\ probe_result = "none"
    /\ probe_stdout = Reports
    /\ superseded = None

FilterNext == ui \/ OtherEvent

FilterSpec == InitFilter /\ [][FilterNext]_vars

(***************************************************************************)
(* Extraction on its own: the probe prints one text of ExtractTexts, the   *)
(* user has opened the dialog and typed a path, and confirms it.           *)
(***************************************************************************)
MaxLines == 2

\* Bit rates in bits per second, as the probe reports them.
SampleRates == { 5000000, 8000000, 1250000 }

\* The line the probe prints for a bit rate.
BitrateLine(rate) == "bit_rate: \"" \o NatToStr(rate) \o "\","

BitrateLines ==
    { BitrateLine(rate) : rate \in SampleRates }
        \cup { " \"bit_rate\": \"N/A\",",
               " \"bit_rate\": \"6000000\"",
               " bit_rate 7000000,",
               " \"max_bit_rate\": \"9000000\"," }

ResolutionLines ==
    { " \"width\": 1920, \"height\": 1080,",
      " \"width\": 1280, \"height\": 720,",
      " \"width\": 3840, \"height\": 2160,",
      " \"width\": 1280, \"height\": 720, \"coded_width\": 1920, \"coded_height\": 1080,",
      " \"width\": 3840, \"height\": 2160, \"sar\": \"1280:720\",",
      " \"width\": 1920,",
      " \"height\": 1080,",
      " \"width\": 640, \"height\": 480," }

\* The texts of at most n lines taken from S, each line ended by a newline.
RECURSIVE TextsOf(_, _)
TextsOf(S, n) ==
    IF n = 0 THEN { "" }
    ELSE LET shorter == TextsOf(S, n - 1)
         IN  shorter \cup { line \o "\n" \o text : line \in S, text \in shorter }

\* The tokens extract_codec and extract_frame_rate look for, in the order of
\* their tests.
CodecTokens == << "h264", "hevc", "h265", "vp9", "av01", "hap", "mjpeg" >>
FrameRateTokens ==
    << "25/1", "\"25\"", "30/1", "\"30\"", "24/1", "\"24\"", "60/1", "\"60\"" >>

\* The tokens of `present` one after the other, tokens[i] before tokens[j] for
\* i < j when forward and after it otherwise.
RECURSIVE TokenText(_, _, _, _)
TokenText(tokens, present, forward, i) ==
    IF i > Len(tokens) THEN ""
    ELSE LET here == IF i \in present THEN " " \o tokens[i] \o " " ELSE ""
             rest == TokenText(tokens, present, forward, i + 1)
         IN  IF forward THEN here \o rest ELSE rest \o here

\* Every subset of the tokens, in either order.
TokenTexts(tokens) ==
    { TokenText(tokens, present, forward, 1) :
          present \in SUBSET (1..Len(tokens)), forward \in BOOLEAN }

ExtractTexts ==
    TextsOf(BitrateLines, MaxLines) \cup TextsOf(ResolutionLines, MaxLines)
        \cup TokenTexts(CodecTokens) \cup TokenTexts(FrameRateTokens)

ExtractKeys == { Key("Enter") }

\* The dialog is open on a fresh catalogue, a path is typed and the screen
\* shows it.
InitExtract ==
    /\ media_files = << >>
    /\ table_state = Some(0)
    /\ table_offset = 0
    /\ active_filters = << >>
    /\ mode = "AddFile"
    /\ input \in InputChars
    /\ selected_tab = 0
    /\ raw_output_scroll = 0
    /\ notification = None
    /\ now = 0
    /\ pc = "read"
    /\ frame = [status |-> DefaultStatus("AddFile"), tab |-> 0, rows |-> << >>,
                text |-> << input >>]
    /\ add_file_calls = 0
    /\ probe_result = "none"
    /\ probe_stdout \in { { text } : text \in ExtractTexts }
    /\ superseded = None

ExtractKeyEvent == \E key \in ExtractKeys : KeyPress(key)

ExtractNext == ui \/ ExtractKeyEvent

ExtractSpec == InitExtract /\ [][ExtractNext]_vars

\* The records of the catalogue.
Records == { media_files[i] : i \in 1..Len(media_files) }

(***************************************************************************)
(* Properties                                                              *)
(***************************************************************************)
AllKeys == { Char(c) : c \in CommandChars } \cup SpecialKeys

\* The filtered view of the current state.
View == get_filtered_files(media_files, active_filters)

\* C1: the clear key in Normal mode leaves the catalogue, the filters and
\* the filtered view empty and the cursor at 0, stays in Normal mode and
\* sets the notification "All files cleared".
C1_ClearAll ==
    [][ (mode = "Normal" /\ KeyPress(Char("c"))) =>
            /\ media_files' = << >>
            /\ active_filters' = << >>
            /\ get_filtered_files(media_files', active_filters') = << >>
            /\ table_state' = Some(0)
            /\ mode' = "Normal"
            /\ pc' = "draw"
            /\ IsSome(notification')
            /\ Unwrap(notification').message = "All files cleared" ]_vars

\* A catalogue that was on screen has just been cleared.
C1_Witness ==
    /\ pc = "draw"
    /\ mode = "Normal"
    /\ frame.rows # << >>
    /\ media_files = << >>
    /\ table_state = Some(0)
    /\ IsSome(notification)
    /\ Unwrap(notification).message = "All files cleared"

\* C2: in Normal mode, with N the length of the filtered view, the next key
\* moves the cursor from N-1 to 0 and otherwise up by one, the previous key
\* moves it from 0 to N-1 and otherwise down by one, and both leave it
\* alone when N = 0.
C2_SelectionWraps ==
    [][ mode = "Normal" =>
            LET N   == Len(View)
                cur == Unwrap(table_state)
            IN  /\ \A key \in { Key("Down"), Char("j") } :
                     KeyPress(key) =>
                         table_state' = IF N = 0 THEN table_state
                                        ELSE IF cur = N - 1 THEN Some(0)
                                        ELSE Some(cur + 1)
                /\ \A key \in { Key("Up"), Char("k") } :
                     KeyPress(key) =>
                         table_state' = IF N = 0 THEN table_state
                                        ELSE IF cur = 0 THEN Some(N - 1)
                                        ELSE Some(cur - 1) ]_vars

\* The cursor has been moved to the last of two rows shown on the table.
C2_Witness ==
    /\ pc = "draw"
    /\ mode = "Normal"
    /\ Len(View) = 2
    /\ frame.rows = View
    /\ table_state = Some(1)

\* The indices of the catalogue C whose record contains, in the field each
\* predicate of P names, that predicate's value.
MatchingIndices(C, P) ==
    { i \in 1..Len(C) :
        \A n \in 1..Len(P) :
            Contains(FilterField(C[i], P[n].filter_type), P[n].value) }

\* C3: the rows of the filtered view are exactly the records of the
\* catalogue that contain every predicate's value in the predicate's field,
\* in catalogue order and with multiplicity; with no predicate they are the
\* whole catalogue; a bitrate predicate "1" keeps "10.0" and "1.5".
C3_FilteredView ==
    (pc = "read" /\ mode = "Normal") =>
        LET C    == media_files
            P    == active_filters
            I    == MatchingIndices(C, P)
            rows == frame.rows
        IN  /\ Len(rows) = Cardinality(I)
            /\ \A k \in 1..Len(rows) :
                 \E i \in I : /\ Cardinality({ j \in I : j < i }) = k - 1
                              /\ rows[k] = C[i]
            /\ P = << >> => rows = C
            /\ ( /\ P = << Filter("Bitrate", "1") >>
                 /\ \A i \in 1..Len(C) : C[i].bitrate \in { "10.0", "1.5" } )
               => rows = C

\* Two predicates have kept some records of the catalogue and dropped others.
C3_Witness ==
    /\ pc = "read"
    /\ Len(active_filters) = 2
    /\ frame.rows # << >>
    /\ Len(frame.rows) < Len(media_files)

\* C4: confirming a path that does not exist, or one the probe cannot be
\* launched on, leaves the catalogue as it was, sets a notification that
\* describes the failure, does not leave the loop and returns to Normal.
C4_FailureNonFatal ==
    [][ (mode = "AddFile" /\ KeyPress(Key("Enter")) /\ input # "") =>
            /\ input \notin FileSystem =>
                 /\ media_files' = media_files
                 /\ probe_result' = "none"
                 /\ IsSome(notification')
                 /\ Unwrap(notification').message = "File does not exist"
            /\ probe_result' = "failed" =>
                 /\ media_files' = media_files
                 /\ IsSome(notification')
                 /\ \E code \in DOMAIN strerror :
                        Unwrap(notification').message =
                            "Error analyzing file: " \o IoErrorText(code)
            /\ (input \notin FileSystem \/ probe_result' = "failed") =>
                 /\ Unwrap(notification').timestamp = now'
                 /\ pc' = "draw"
                 /\ mode' = "Normal" ]_vars

\* Both failures have happened while the catalogue held a record: the
\* screen still shows the notification of a missing path, and the probe
\* could not be launched for the path confirmed since.
C4_Witness ==
    /\ add_file_calls = 1
    /\ probe_result = "failed"
    /\ mode = "Normal"
    /\ pc = "draw"
    /\ media_files # << >>
    /\ frame.status = "File does not exist"
    /\ IsSome(notification)
    /\ Unwrap(notification).message =
           "Error analyzing file: No such file or directory (os error 2)"

\* C5: Enter in AddFile mode always returns to Normal with an empty
\* buffer; add_file runs once exactly when the buffer was not empty and
\* then a notification is set; with an empty buffer nothing is analysed and
\* catalogue and notification stay as they were.
C5_Confirm ==
    [][ (mode = "AddFile" /\ KeyPress(Key("Enter"))) =>
            /\ mode' = "Normal"
            /\ input' = ""
            /\ pc' = "draw"
            /\ add_file_calls' = IF input # "" THEN 1 ELSE 0
            /\ input # "" =>
                 /\ IsSome(notification')
                 /\ Unwrap(notification').timestamp = now'
            /\ input = "" =>
                 /\ media_files' = media_files
                 /\ notification' = notification
                 /\ probe_result' = "none" ]_vars

\* A path has been confirmed and analysed.
C5_Witness ==
    /\ add_file_calls = 1
    /\ probe_result = "ok"
    /\ mode = "Normal"
    /\ input = ""
    /\ pc = "draw"

\* C6 as claimed: the step that ends the loop is taken in Normal mode on
\* 'q', and no key pressed in AddFile, ShowRawOutput or Help mode ends it.
C6_ExitOnlyFromNormal ==
    [][ /\ (Running /\ ~Running') => (mode = "Normal" /\ KeyPress(Char("q")))
        /\ mode # "Normal" =>
             (~Running' => ~ \E key \in AllKeys : KeyPress(key)) ]_vars

\* C6: run_app returns Ok only by 'q' in Normal mode, and no key pressed in
\* AddFile, ShowRawOutput or Help mode ends the loop; every other end of the
\* loop is the error of terminal.draw or event::read handed on, which is no
\* step of a key, can happen in any mode and changes nothing of the
\* catalogue, the filters, the mode, the cursor, the text buffer, the tab or
\* the scroll offset.  Once run_app has returned nothing changes any more.
C6_ExitByQuitOrError ==
    [][ /\ (Running /\ pc' = "done") => (mode = "Normal" /\ KeyPress(Char("q")))
        /\ mode # "Normal" =>
             (~Running' => ~ \E key \in AllKeys : KeyPress(key))
        /\ (Running /\ pc' = "failed") =>
             /\ ~ \E key \in AllKeys : KeyPress(key)
             /\ UNCHANGED << media_files, active_filters, mode, table_state, input,
                             selected_tab, raw_output_scroll >>
        /\ ~Running => UNCHANGED vars ]_vars

\* The loop has ended outside Normal mode, with an error.
C6_Witness == pc = "failed" /\ mode = "Help"

\* C7: the session starts in Normal mode; Esc leads from every other mode
\* to Normal, and no step leads from one of them to another of them.
C7_EscReturns ==
    /\ mode = "Normal"
    /\ [][ mode # "Normal" =>
             /\ mode' \in { mode, "Normal" }
             /\ KeyPress(Key("Esc")) => mode' = "Normal" ]_vars

\* Normal mode has been entered from the help, which is still on screen.
C7_Witness ==
    /\ mode = "Normal"
    /\ pc = "draw"
    /\ frame.status = DefaultStatus("Help")

\* C8: the raw key in Normal mode enters ShowRawOutput with the scroll
\* offset at 0.
C8_ScrollResetOnEnter ==
    [][ (mode = "Normal" /\ KeyPress(Char("r"))) =>
            /\ mode' = "ShowRawOutput"
            /\ raw_output_scroll' = 0 ]_vars

\* C9: the add key in Normal mode enters AddFile with an empty buffer.
C9_FreshBuffer ==
    [][ (mode = "Normal" /\ KeyPress(Char("a"))) =>
            /\ mode' = "AddFile"
            /\ input' = "" ]_vars

\* AddFile has been entered from a table that shows analysed files, so after
\* an earlier visit that typed and confirmed a path.
C9_Witness ==
    /\ mode = "AddFile"
    /\ pc = "draw"
    /\ input = ""
    /\ frame.rows # << >>

\* C10 as stated: every notification created at a time T, whether the App
\* still holds it or a key press has replaced it since the last draw, is what
\* a draw shows while less than NotificationSecs have passed since T, and
\* from then on the draw shows the default message of the mode.
C10_EveryNotificationShown ==
    [][ (pc = "draw" /\ pc' = "read") =>
          \A n \in { notification, superseded } :
             IsSome(n) =>
                IF now < Unwrap(n).timestamp + Secs(NotificationSecs)
                THEN frame'.status = Unwrap(n).message
                ELSE frame'.status = DefaultStatus(mode) ]_vars

\* C10: a draw shows the notification the App holds, the last one created,
\* while less than NotificationSecs have passed since its creation and keeps
\* it; from then on a draw discards it and shows the default message of the
\* mode.  A notification that a newer one has replaced is not shown by the
\* next draw, though its time is not over.  A draw that ends in an error may
\* have discarded the notification whose time is over; no other step discards
\* a notification, and a notification that appears is created at that moment.
C10_NotificationLifetime ==
    [][ /\ (pc = "draw" /\ pc' = "read") =>
             IF /\ IsSome(notification)
                /\ now < Unwrap(notification).timestamp + Secs(NotificationSecs)
             THEN /\ frame'.status = Unwrap(notification).message
                  /\ notification' = notification
             ELSE /\ frame'.status = DefaultStatus(mode)
                  /\ notification' = None
        /\ (pc = "draw" /\ pc' = "read" /\ IsSome(superseded)) =>
             frame'.status # Unwrap(superseded).message
        /\ (pc = "draw" /\ pc' = "failed" /\ notification' # notification) =>
             /\ now >= Unwrap(notification).timestamp + Secs(NotificationSecs)
             /\ notification' = None
        /\ ~(pc = "draw" /\ pc' # "draw") =>
             \/ notification' = notification
             \/ /\ IsSome(notification')
                /\ Unwrap(notification').timestamp = now' ]_vars

\* A notification was on screen and a key press has replaced it by another
\* within its time: the draw that comes next shows the newer one.
C10_Witness ==
    /\ pc = "draw"
    /\ IsSome(superseded)
    /\ frame.status = Unwrap(superseded).message
    /\ now > Unwrap(superseded).timestamp
    /\ now < Unwrap(superseded).timestamp + Secs(NotificationSecs)
    /\ IsSome(notification)
    /\ now < Unwrap(notification).timestamp + Secs(NotificationSecs)

\* A notification was on screen and its time has been over for a while when
\* the next draw comes.
C10_WitnessExpired ==
    /\ pc = "draw"
    /\ IsSome(notification)
    /\ frame.status = Unwrap(notification).message
    /\ now > Unwrap(notification).timestamp + Secs(NotificationSecs)

\* The notification of the last confirmed path has been discarded by a draw.
C10_WitnessDiscarded ==
    /\ pc = "read"
    /\ add_file_calls = 1
    /\ notification = None
    /\ frame.status = DefaultStatus(mode)

MinOf(S) == CHOOSE i \in S : \A j \in S : i <= j

\* The lines of a report that extract_bitrate looks into, by position.
QualifyingLines(raw_output) ==
    { i \in 1..Len(Lines(raw_output)) : QualifyingBitrateLine(Lines(raw_output)[i]) }

\* The qualifying lines that have a colon, a comma after it and a number
\* between the two.
ParsableLines(raw_output) ==
    { i \in QualifyingLines(raw_output) : IsSome(BitrateOfLine(Lines(raw_output)[i])) }

\* C11 as stated: only the first qualifying line of the report is used; when
\* it has no colon followed by a comma, or no number between them, the bitrate
\* is "Unknown" whatever the later lines carry.
C11_FirstQualifyingOnly ==
    \A r \in Records :
        /\ QualifyingLines(r.raw_output) # {}
        /\ MinOf(QualifyingLines(r.raw_output)) \notin ParsableLines(r.raw_output)
        => r.bitrate = "Unknown"

\* C11 amended: the qualifying lines are tried in report order and the first
\* one that yields a number decides; a qualifying line that yields none is
\* skipped, and the bitrate is "Unknown" only when no qualifying line yields
\* a number.
C11_FirstParsableLine ==
    \A r \in Records :
        IF ParsableLines(r.raw_output) = {}
        THEN r.bitrate = "Unknown"
        ELSE r.bitrate =
                 Unwrap(BitrateOfLine(Lines(r.raw_output)[MinOf(ParsableLines(r.raw_output))]))

\* A record whose first qualifying line yields no number and whose bitrate
\* comes from a later line.
C11_Witness ==
    \E r \in Records :
        /\ QualifyingLines(r.raw_output) # {}
        /\ MinOf(QualifyingLines(r.raw_output)) \notin ParsableLines(r.raw_output)
        /\ ParsableLines(r.raw_output) # {}
        /\ r.bitrate # "Unknown"

\* The lines of a report that contain "bit_rate", and those among them that
\* contain "max_bit_rate".
BitRateBearing(raw_output) ==
    { i \in 1..Len(Lines(raw_output)) : Contains(Lines(raw_output)[i], "bit_rate") }

MaxBitRateBearing(raw_output) ==
    { i \in 1..Len(Lines(raw_output)) : Contains(Lines(raw_output)[i], "max_bit_rate") }

\* Tenths written with one fractional digit: 50 is "5.0".
OneFractionalDigit(tenths) == NatToStr(tenths \div 10) \o "." \o NatToStr(tenths % 10)

\* text is rate / 1,000,000 to the nearest tenth, written with one fractional
\* digit.
IsMbpsOf(text, rate) ==
    \E tenths \in (rate \div 100000)..(rate \div 100000 + 1) :
        /\ text = OneFractionalDigit(tenths)
        /\ 2 * (tenths * 100000 - rate) <= 100000
        /\ 2 * (rate - tenths * 100000) <= 100000

\* C12: a report whose only lines with "bit_rate" are lines with
\* "max_bit_rate" has bitrate "Unknown"; a report whose first line with
\* "bit_rate" and without "max_bit_rate" is `bit_rate: "B",` has bitrate
\* B / 1,000,000 with exactly one fractional digit: "5.0" for 5000000 and
\* "8.0" for 8000000.
C12_BitrateValue ==
    \A r \in Records :
        LET bearing   == BitRateBearing(r.raw_output) \ MaxBitRateBearing(r.raw_output)
            firstLine == Lines(r.raw_output)[MinOf(bearing)]
        IN  /\ bearing = {} => r.bitrate = "Unknown"
            /\ bearing # {} =>
                 /\ \A rate \in SampleRates :
                        firstLine = BitrateLine(rate) => IsMbpsOf(r.bitrate, rate)
                 /\ firstLine = BitrateLine(5000000) => r.bitrate = "5.0"
                 /\ firstLine = BitrateLine(8000000) => r.bitrate = "8.0"

\* A report with a max_bit_rate line first and `bit_rate: "8000000",` after
\* it, analysed to "8.0".
C12_Witness ==
    \E r \in Records :
        /\ 1 \in MaxBitRateBearing(r.raw_output)
        /\ Len(Lines(r.raw_output)) = 2
        /\ Lines(r.raw_output)[2] = BitrateLine(8000000)
        /\ r.bitrate = "8.0"

\* A report whose only line with "bit_rate" is a max_bit_rate line.
C12_WitnessMaxOnly ==
    \E r \in Records :
        /\ BitRateBearing(r.raw_output) # {}
        /\ BitRateBearing(r.raw_output) = MaxBitRateBearing(r.raw_output)
        /\ r.bitrate = "Unknown"

\* The resolution pairs in the order of their priority within a line.
ResolutionPairs == << << "1920", "1080" >>, << "1280", "720" >>, << "3840", "2160" >> >>

\* The pairs both numbers of which occur in the line.
PairsIn(line) ==
    { k \in 1..Len(ResolutionPairs) :
        Contains(line, ResolutionPairs[k][1]) /\ Contains(line, ResolutionPairs[k][2]) }

\* The lines of a report that contain "width", "height" and both numbers of
\* a pair, by position.
YieldingLines(raw_output) ==
    { i \in 1..Len(Lines(raw_output)) :
        /\ Contains(Lines(raw_output)[i], "width")
        /\ Contains(Lines(raw_output)[i], "height")
        /\ PairsIn(Lines(raw_output)[i]) # {} }

\* C13: the resolution is "Unknown" unless some single line contains "width",
\* "height" and both numbers of a pair; otherwise the first such line decides,
\* by the first pair of the priority 1920x1080, 1280x720, 3840x2160 it holds.
C13_Resolution ==
    \A r \in Records :
        IF YieldingLines(r.raw_output) = {}
        THEN r.resolution = "Unknown"
        ELSE LET line == Lines(r.raw_output)[MinOf(YieldingLines(r.raw_output))]
                 pair == ResolutionPairs[MinOf(PairsIn(line))]
             IN  r.resolution = pair[1] \o "x" \o pair[2]

\* A report with the four tokens of 1920x1080 spread over two lines, analysed
\* to "Unknown".
C13_Witness ==
    \E r \in Records :
        /\ Contains(r.raw_output, "width") /\ Contains(r.raw_output, "height")
        /\ Contains(r.raw_output, "1920") /\ Contains(r.raw_output, "1080")
        /\ YieldingLines(r.raw_output) = {}
        /\ r.resolution = "Unknown"

\* A report whose second line holds a pair of higher priority than its first
\* line: the first line decides.
C13_WitnessFirstLine ==
    \E r \in Records :
        /\ YieldingLines(r.raw_output) = { 1, 2 }
        /\ r.resolution = "3840x2160"
        /\ 1 \in PairsIn(Lines(r.raw_output)[2])

\* C14: a step leaves the catalogue as it is, or adds one record at its end,
\* or empties it.  A record is added only by Enter in the AddFile dialog with
\* a successful analysis, and then always, whether or not the catalogue holds
\* the path already; the catalogue is emptied only by 'c' in Normal mode.
C14_AppendOnly ==
    [][ /\ \/ media_files' = media_files
           \/ /\ Len(media_files') = Len(media_files) + 1
              /\ SubSeq(media_files', 1, Len(media_files)) = media_files
              /\ mode = "AddFile" /\ probe_result' = "ok"
              /\ KeyPress(Key("Enter"))
           \/ /\ media_files # << >> /\ media_files' = << >>
              /\ mode = "Normal"
              /\ KeyPress(Char("c"))
        /\ mode = "AddFile" /\ probe_result' = "ok" /\ KeyPress(Key("Enter")) =>
              /\ Len(media_files') = Len(media_files) + 1
              /\ media_files'[Len(media_files')].path = input ]_vars

\* Two records of the same path, one after the other.
C14_Witness ==
    /\ Len(media_files) = 2
    /\ media_files[1].path = media_files[2].path

\* C15: the screen drawn in ShowRawOutput mode shows, from the scroll offset
\* on, the raw report of the record at the cursor position in the filtered
\* view, and the placeholder when the view has no record there.
C15_RawReportShown ==
    pc = "read" /\ mode = "ShowRawOutput" =>
        frame.text =
            Skip(Lines(IF IsSome(table_state) /\ Unwrap(table_state) < Len(View)
                       THEN View[Unwrap(table_state) + 1].raw_output
                       ELSE "No file selected"),
                 raw_output_scroll)

\* The second of two records with different reports is selected and its
\* report is on screen from the first line.
C15_Witness ==
    /\ pc = "read" /\ mode = "ShowRawOutput"
    /\ Len(media_files) = 2
    /\ media_files[1].raw_output # media_files[2].raw_output
    /\ table_state = Some(1)
    /\ raw_output_scroll = 0
    /\ frame.text = Lines(media_files[2].raw_output)

\* The placeholder is on screen, the catalogue being empty.
C15_WitnessPlaceholder ==
    /\ pc = "read" /\ mode = "ShowRawOutput"
    /\ media_files = << >>
    /\ frame.text = << "No file selected" >>

\* The label of each token of CodecTokens.
CodecLabels == << "H.264", "H.265", "H.265", "VP9", "AV1", "Hap", "MJPEG" >>

PresentCodecs(raw_output) ==
    { k \in 1..Len(CodecTokens) : Contains(raw_output, CodecTokens[k]) }

\* C16: the codec is the label of the earliest-listed token of h264, hevc,
\* h265, vp9, av01, hap, mjpeg that the report contains, and "Unknown" when it
\* contains none.
C16_CodecOrder ==
    \A r \in Records :
        IF PresentCodecs(r.raw_output) = {}
        THEN r.codec = "Unknown"
        ELSE r.codec = CodecLabels[MinOf(PresentCodecs(r.raw_output))]

\* A report with two tokens, the later-listed one first in the text, analysed
\* to the label of the earlier-listed one.
C16_Witness ==
    \E r \in Records : \E k, m \in PresentCodecs(r.raw_output) :
        /\ k < m
        /\ CodecLabels[k] # CodecLabels[m]
        /\ FirstAt(r.raw_output, CodecTokens[m]) < FirstAt(r.raw_output, CodecTokens[k])
        /\ r.codec = CodecLabels[k]

\* The rate each token of FrameRateTokens stands for.
FrameRates == << "25", "25", "30", "30", "24", "24", "60", "60" >>

PresentRates(raw_output) ==
    { k \in 1..Len(FrameRateTokens) : Contains(raw_output, FrameRateTokens[k]) }

\* C17: the frame rate is the earliest-listed rate of 25, 30, 24, 60 for which
\* the report contains "R/1" or the quoted "R", wherever in the text, and
\* "Unknown" when it contains none.
C17_FrameRateOrder ==
    \A r \in Records :
        IF PresentRates(r.raw_output) = {}
        THEN r.frame_rate = "Unknown"
        ELSE r.frame_rate = FrameRates[MinOf(PresentRates(r.raw_output))]

\* A report with the tokens of two rates, the later-listed rate first in the
\* text, analysed to the earlier-listed rate.
C17_Witness ==
    \E r \in Records : \E k, m \in PresentRates(r.raw_output) :
        /\ k < m
        /\ FrameRates[k] # FrameRates[m]
        /\ FirstAt(r.raw_output, FrameRateTokens[m]) < FirstAt(r.raw_output, FrameRateTokens[k])
        /\ r.frame_rate = FrameRates[k]

\* C18: every record has a codec, a resolution and a frame rate of the closed
\* enumerations; every report the probe prints is analysed to a record.
C18_ClosedEnumerations ==
    /\ \A r \in Records :
        /\ r.codec \in { "H.264", "H.265", "VP9", "AV1", "Hap", "MJPEG", "Unknown" }
        /\ r.resolution \in { "1920x1080", "1280x720", "3840x2160", "Unknown" }
        /\ r.frame_rate \in { "25", "30", "24", "60", "Unknown" }
    /\ probe_result = "ok" =>
        /\ media_files # << >>
        /\ media_files[Len(media_files)].raw_output \in probe_stdout

\* A report with a width and a height of no known pair, a codec and a rate of
\* no known token: the three fields are "Unknown".
C18_Witness ==
    \E r \in Records :
        /\ Contains(r.raw_output, "width") /\ Contains(r.raw_output, "480")
        /\ r.codec = "Unknown"
        /\ r.resolution = "Unknown"
        /\ r.frame_rate = "Unknown"

\* C19: in ShowRawOutput mode Up takes one from the scroll offset, or leaves
\* it at 0; Down adds one to it, however few lines the report has; neither
\* changes the mode, the catalogue or the cursor.
C19_Scroll ==
    [][ /\ mode = "ShowRawOutput" /\ KeyPress(Key("Up")) =>
              /\ raw_output_scroll' =
                     IF raw_output_scroll = 0 THEN 0 ELSE raw_output_scroll - 1
              /\ raw_output_scroll' >= 0
              /\ UNCHANGED << mode, media_files, table_state >>
        /\ mode = "ShowRawOutput" /\ KeyPress(Key("Down")) =>
              /\ raw_output_scroll' = raw_output_scroll + 1
              /\ UNCHANGED << mode, media_files, table_state >> ]_vars

\* Down was pressed with the offset at the end of the report of the selected
\* record and again past it: the offset is beyond the last line and nothing
\* of the report is on screen.
C19_Witness ==
    /\ pc = "read" /\ mode = "ShowRawOutput"
    /\ media_files # << >>
    /\ IsSome(table_state) /\ Unwrap(table_state) < Len(media_files)
    /\ raw_output_scroll = MaxScroll
    /\ raw_output_scroll > Len(Lines(media_files[Unwrap(table_state) + 1].raw_output)) + 1
    /\ frame.text = << >>

\* C20: a render pass leaves mode, catalogue, filters, cursor, scroll offset,
\* tab and text buffer as they are, in every mode; it drops the notification
\* when it has expired and keeps it otherwise; after the pass there is no
\* expired notification left, so a second pass at the same instant changes
\* nothing.  The one other thing a pass writes is the first row shown by the
\* table widget, which is no part of the state the claim lists: only in
\* Normal mode with a record in view, to bring the selected row into view,
\* and a second pass on the same terminal leaves it where the first put it.
C20_RenderPass ==
    [][ (pc = "draw" /\ pc' = "read") =>
          /\ UNCHANGED << mode, media_files, active_filters, table_state,
                          raw_output_scroll, selected_tab, input, now >>
          /\ notification' =
                 IF IsSome(notification)
                    /\ now - Unwrap(notification).timestamp >= Secs(NotificationSecs)
                 THEN None
                 ELSE notification
          /\ IsSome(notification') =>
                 now' - Unwrap(notification').timestamp < Secs(NotificationSecs)
          /\ IF mode = "Normal" /\ View # << >>
             THEN \E rows_height \in RowsHeights :
                     /\ table_offset' = get_row_bounds(table_state, table_offset,
                                                       rows_height, Len(View))
                     /\ table_offset' = get_row_bounds(table_state', table_offset',
                                                       rows_height, Len(View'))
                     /\ table_offset' <= Unwrap(table_state)
                     /\ Unwrap(table_state) < table_offset' + rows_height
             ELSE table_offset' = table_offset ]_vars

\* A render pass has dropped the notification of an analysis and, on a
\* terminal with one line for the rows, has made the selected second row the
\* first row shown.
C20_Witness ==
    /\ pc = "read" /\ mode = "Normal"
    /\ Len(media_files) = 2
    /\ notification = None
    /\ frame.status = DefaultStatus(mode)
    /\ table_state = Some(1)
    /\ table_offset = 1

\* C21: no filter is ever active, and the filtered view is the catalogue:
\* the same records in the same order, also as rows of the table on screen.
C21_NoFilterEver ==
    /\ active_filters = << >>
    /\ Len(View) = Len(media_files)
    /\ \A i \in 1..Len(media_files) : View[i] = media_files[i]
    /\ pc = "read" /\ mode = "Normal" => frame.rows = media_files

\* Two different records are in the catalogue and on screen, in the order of
\* their analysis.
C21_Witness ==
    /\ pc = "read" /\ mode = "Normal"
    /\ Len(media_files) = 2
    /\ media_files[1] # media_files[2]
    /\ frame.rows = media_files

\* C22: the cursor is always defined; it is an index of the filtered view
\* when the view has records, and 0 when the catalogue is empty.
C22_CursorValid ==
    /\ IsSome(table_state)
    /\ View # << >> => Unwrap(table_state) \in 0..(Len(View) - 1)
    /\ media_files = << >> => table_state = Some(0)

\* The cursor is on the second of two records.
C22_Witness ==
    /\ Len(media_files) = 2
    /\ table_state = Some(1)

\* The catalogue has been cleared and the cursor is back at 0.
C22_WitnessCleared ==
    /\ media_files = << >>
    /\ IsSome(notification) /\ Unwrap(notification).message = "All files cleared"
    /\ table_state = Some(0)

====
